---- MODULE Spec2Model ----
(***************************************************************************)
(* Model of the text-to-SQL analysis scripts and of the trainer glue:      *)
(*   seq2seq/eval_spider/analyse_dataset.py    eval_hardness,              *)
(*                                             form_clause_str,            *)
(*                                             analyse_dataset             *)
(*   seq2seq/eval_spider/format_predictions.py format_predictions          *)
(*   seq2seq/utils/trainer.py                  Seq2SeqTrainer.evaluate,    *)
(*                                             Seq2SeqTrainer.predict      *)
(* Python strings are sequences of one-character strings, so that lengths, *)
(* delimiters, separators and line breaks are those of the text itself.    *)
(***************************************************************************)
EXTENDS Integers, Sequences, FiniteSets, TLC

VARIABLES
    \* eval_hardness
    count_comp1_, count_comp2_, count_others_, hardness,
    \* form_clause_str
    sql_dict, clause_str,
    \* analyse_dataset
    pc, input_file, instances, query_data, out_file, out_opened, out_old, written,
    \* format_predictions
    fpc, all_predictions, predicted_queries, sql_file, sql_written,
    \* Seq2SeqTrainer
    tpc, compute_metrics, self_, local, results

hvars == <<count_comp1_, count_comp2_, count_others_, hardness>>
cvars == <<sql_dict, clause_str>>
rvars == <<pc, input_file, instances, query_data, out_file, out_opened, out_old,
          written>>
fvars == <<fpc, all_predictions, predicted_queries, sql_file, sql_written>>
tvars == <<tpc, compute_metrics, self_, local, results>>
vars == <<hvars, cvars, rvars, fvars, tvars>>

----------------------------------------------------------------------------
(* Bounds of the model.                                                    *)

MaxCount == 5
MaxTables == 2
MaxLimit == 2
MaxRecords == 2
MaxPredLen == 3
MaxPreds == 2
MaxCalls == 2
MaxBatches == 1

----------------------------------------------------------------------------
(* Text.                                                                   *)

NoText == <<>>
Digits == <<"0", "1", "2", "3", "4", "5", "6", "7", "8", "9">>

RECURSIVE str(_)
\* Python's str(n) of a non-negative int: its decimal digits.
str(n) == IF n < 10 THEN <<Digits[n + 1]>>
          ELSE str(n \div 10) \o <<Digits[(n % 10) + 1]>>

\* x in xs, for a Python list modelled as a sequence.
In(x, xs) == \E k \in 1..Len(xs) : xs[k] = x

RECURSIVE Concat(_)
\* The concatenation of a sequence of texts.
Concat(ts) == IF ts = <<>> THEN <<>> ELSE Head(ts) \o Concat(Tail(ts))

----------------------------------------------------------------------------
(* eval_hardness                                                           *)

EASY == <<"e", "a", "s", "y">>
MEDIUM == <<"m", "e", "d", "i", "u", "m">>
HARD == <<"h", "a", "r", "d">>
EXTRA == <<"e", "x", "t", "r", "a">>

\* The condition of the if.
Rule1(c1, c2, o) == c1 <= 1 /\ o = 0 /\ c2 = 0

\* Rule2 with the second alternative's test of others turned round.
Rule2_OthersAbove(c1, c2, o) ==
    \/ (o <= 2 /\ c1 <= 1 /\ c2 = 0)
    \/ (c1 <= 2 /\ o > 2 /\ c2 = 0)

\* The condition of the first elif.
Rule2(c1, c2, o) ==
    \/ (o <= 2 /\ c1 <= 1 /\ c2 = 0)
    \/ (c1 <= 2 /\ o < 2 /\ c2 = 0)

\* Rule3 without its third alternative.
Rule3_NoThird(c1, c2, o) ==
    \/ (o > 2 /\ c1 <= 2 /\ c2 = 0)
    \/ (2 < c1 /\ c1 <= 3 /\ o <= 2 /\ c2 = 0)

\* Rule3 with others >= 2 for others > 2.
Rule3_OthersFromTwo(c1, c2, o) ==
    \/ (o >= 2 /\ c1 <= 2 /\ c2 = 0)
    \/ (2 < c1 /\ c1 <= 3 /\ o <= 2 /\ c2 = 0)
    \/ (c1 <= 1 /\ o = 0 /\ c2 <= 1)

\* The condition of the second elif.
Rule3(c1, c2, o) ==
    \/ (o > 2 /\ c1 <= 2 /\ c2 = 0)
    \/ (2 < c1 /\ c1 <= 3 /\ o <= 2 /\ c2 = 0)
    \/ (c1 <= 1 /\ o = 0 /\ c2 <= 1)

\* eval_hardness with others <= 2 for others < 2 in the first elif.
eval_hardness_OthersUpToTwo(c1, c2, o) ==
    IF Rule1(c1, c2, o) THEN EASY
    ELSE IF (o <= 2 /\ c1 <= 1 /\ c2 = 0) \/ (c1 <= 2 /\ o <= 2 /\ c2 = 0) THEN MEDIUM
    ELSE IF Rule3(c1, c2, o) THEN HARD
    ELSE EXTRA

eval_hardness(c1, c2, o) ==
    IF Rule1(c1, c2, o) THEN EASY
    ELSE IF Rule2(c1, c2, o) THEN MEDIUM
    ELSE IF Rule3(c1, c2, o) THEN HARD
    ELSE EXTRA

----------------------------------------------------------------------------
(* form_clause_str                                                         *)
(* A sql_dict is the parsed query: keys is the set of the required keys it *)
(* holds; select is (distinct flag, units), a unit being its aggregation   *)
(* id; from_ holds table_units; where and having are lists of condition    *)
(* units and connective strings; groupBy is a list; orderBy is empty or    *)
(* starts with its direction; limit is None or an int; union, intersect    *)
(* and except_ are None or a nested query.                                 *)

AGG_OPS == << <<"n", "o", "n", "e">>, <<"m", "a", "x">>, <<"m", "i", "n">>,
              <<"c", "o", "u", "n", "t">>, <<"s", "u", "m">>, <<"a", "v", "g">> >>

SELECT_ == <<"S", "E", "L", "E", "C", "T", " ">>
DISTINCT_ == <<"D", "I", "S", "T", "I", "N", "C", "T", " ">>
FROM_ == <<"F", "R", "O", "M", " ">>
WHERE_ == <<"W", "H", "E", "R", "E", " ">>
AND_ == <<"A", "N", "D", " ">>
OR_ == <<"O", "R", " ">>
SUBQUERY_ == <<"S", "U", "B", "Q", "U", "E", "R", "Y", " ">>
GROUP_BY_ == <<"G", "R", "O", "U", "P", " ", "B", "Y", " ">>
HAVING_ == <<"H", "A", "V", "I", "N", "G", " ">>
ORDER_BY_ == <<"O", "R", "D", "E", "R", " ", "B", "Y", " ">>
LIMIT_ == <<"L", "I", "M", "I", "T", " ">>
UNION_ == <<"U", "N", "I", "O", "N", " ">>
INTERSECT_ == <<"I", "N", "T", "E", "R", "S", "E", "C", "T", " ">>
EXCEPT_ == <<"E", "X", "C", "E", "P", "T", " ">>

\* The delimiter parameter's default.
delimiter == <<"|">>

\* An element of a where or having list that is a connective string.
Conn(s) ==
    [type |-> "str", s |-> s, agg1 |-> 0, unit2 |-> <<>>,
     val1_dict |-> FALSE, val2_dict |-> FALSE]

\* An element that is a condition unit: agg1 is unit[2][1][0], unit2 is
\* unit[2][2] (empty for None, else starting with its aggregation id), and
\* val1_dict, val2_dict say whether unit[3], unit[4] are nested queries.
Cond(agg1, unit2, val1_dict, val2_dict) ==
    [type |-> "tuple", s |-> "", agg1 |-> agg1, unit2 |-> unit2,
     val1_dict |-> val1_dict, val2_dict |-> val2_dict]

\* 'and' in clause, 'or' in clause.
HasConn(s, clause) == In(Conn(s), clause)

RECURSIVE SubqueryScan(_)
\* The loop that appends SUBQUERY at the first unit holding a nested query,
\* and breaks.
SubqueryScan(units) ==
    IF units = <<>> THEN NoText
    ELSE IF Head(units).type # "str"
            /\ (Head(units).val1_dict \/ Head(units).val2_dict)
         THEN SUBQUERY_
         ELSE SubqueryScan(Tail(units))

RECURSIVE SelectAggs(_)
\* The loop over select[1].
SelectAggs(units) ==
    IF units = <<>> THEN NoText
    ELSE (IF Head(units) # 0 THEN AGG_OPS[Head(units) + 1] \o <<" ">> ELSE NoText)
         \o SelectAggs(Tail(units))

RECURSIVE HavingAggs(_)
\* The first loop over having.
HavingAggs(units) ==
    IF units = <<>> THEN NoText
    ELSE LET unit == Head(units) IN
         (IF unit.type # "str"
          THEN (IF unit.agg1 # 0 THEN AGG_OPS[unit.agg1 + 1] \o <<" ">> ELSE NoText)
               \o (IF unit.unit2 # <<>> /\ unit.unit2[1] # 0
                   THEN AGG_OPS[unit.unit2[1] + 1] \o <<" ">> ELSE NoText)
          ELSE NoText)
         \o HavingAggs(Tail(units))

\* Python's truth value of sql_dict.get('limit'): None and 0 are false.
LimitTruthy(limit) == ~limit.is_none /\ limit.value # 0

\* Python's truth value of a value that is None or a nested query.
Truthy(v) == v # "None"

\* select[0] raises on a missing select, from_clause.get on a missing from.
form_clause_str_raises(sql) == ~({"select", "from"} \subseteq sql.keys)

\* The number of clauses counted: no_clauses.
no_clauses(sql) ==
    (0 + 1) + 1
    + (IF sql.where # <<>> THEN 1 ELSE 0)
    + (IF sql.groupBy # <<>> THEN 1 ELSE 0)
    + (IF sql.having # <<>> THEN 1 ELSE 0)
    + (IF sql.orderBy # <<>> THEN 1 ELSE 0)
    + (IF LimitTruthy(sql.limit) THEN 1 ELSE 0)
    + (IF Truthy(sql.union) THEN 1 ELSE 0)
    + (IF Truthy(sql.intersect) THEN 1 ELSE 0)
    + (IF Truthy(sql.except_) THEN 1 ELSE 0)

\* The select part of clause_str.
select_str(sql, d) ==
    SELECT_
    \o (IF sql.select.distinct THEN DISTINCT_ ELSE NoText)
    \o SelectAggs(sql.select.units)
    \o d

\* The from part: FROM, the delimiter, the number of tables, the delimiter.
from_str(sql, d) ==
    FROM_ \o d \o str(Len(sql.from_.table_units)) \o d

\* where_str with the delimiter appended inside the if.
where_str_DelimiterInsideIf(sql, d) ==
    IF sql.where # <<>>
    THEN WHERE_
         \o (IF HasConn("and", sql.where) THEN AND_ ELSE NoText)
         \o (IF HasConn("or", sql.where) THEN OR_ ELSE NoText)
         \o SubqueryScan(sql.where)
         \o d
    ELSE NoText

where_str(sql, d) ==
    (IF sql.where # <<>>
     THEN WHERE_
          \o (IF HasConn("and", sql.where) THEN AND_ ELSE NoText)
          \o (IF HasConn("or", sql.where) THEN OR_ ELSE NoText)
          \o SubqueryScan(sql.where)
     ELSE NoText)
    \o d

group_by_str(sql, d) ==
    (IF sql.groupBy # <<>> THEN GROUP_BY_ ELSE NoText) \o d

having_str(sql, d) ==
    (IF sql.having # <<>>
     THEN HAVING_
          \o (IF HasConn("and", sql.having) THEN AND_ ELSE NoText)
          \o (IF HasConn("or", sql.having) THEN OR_ ELSE NoText)
          \o HavingAggs(sql.having)
          \o SubqueryScan(sql.having)
     ELSE NoText)
    \o d

order_by_str(sql, d) ==
    (IF sql.orderBy # <<>>
     THEN ORDER_BY_ \o sql.orderBy[1] \o <<" ">>
     ELSE NoText)
    \o d

limit_str(sql, d) ==
    (IF LimitTruthy(sql.limit)
     THEN LIMIT_ \o str(sql.limit.value) \o <<" ">>
     ELSE NoText)
    \o d

set_ops_str(sql, d) ==
    (IF Truthy(sql.union) THEN UNION_ ELSE NoText) \o d
    \o (IF Truthy(sql.intersect) THEN INTERSECT_ ELSE NoText) \o d
    \o (IF Truthy(sql.except_) THEN EXCEPT_ ELSE NoText) \o d

\* The string form_clause_str returns for a sql_dict that has select and from.
form_clause_str(sql, d) ==
    select_str(sql, d)
    \o from_str(sql, d)
    \o where_str(sql, d)
    \o group_by_str(sql, d)
    \o having_str(sql, d)
    \o order_by_str(sql, d)
    \o limit_str(sql, d)
    \o set_ops_str(sql, d)
    \o str(no_clauses(sql))

----------------------------------------------------------------------------
(* analyse_dataset                                                         *)
(* An instance is one record of the input: query, question, sql, and       *)
(* counts, the three counters the imported counting functions return for   *)
(* its sql. input_file is the state of the dataset file on disk; out_file  *)
(* is the statistics file: whether it exists, and its text.                *)

NEWLINE == <<"\n">>

\* The string the loop body builds for instance i.
instance_str(i) ==
    LET s1 == NoText \o i.query
        s2 == s1 \o (<<" ">> \o delimiter \o <<" ">>)
        s3 == s2 \o i.question
        s4 == s3 \o (<<" ">> \o delimiter \o <<" ">>)
        s5 == s4 \o eval_hardness(i.counts[1], i.counts[2], i.counts[3])
        s6 == s5 \o (<<" ">> \o delimiter \o <<" ">>)
        s7 == s6 \o form_clause_str(i.sql, delimiter)
        s8 == s7 \o (<<" ">> \o delimiter)
        s9 == s8 \o str(Len(i.query))
        s10 == s9 \o (<<" ">> \o delimiter)
    IN  s10 \o str(Len(i.question))

\* The body of the loop raises for this instance.
instance_raises(i) == form_clause_str_raises(i.sql)

\* AppendInstance inserting at the front.
AppendInstance_AtFront(data, i) == <<instance_str(i)>> \o data

\* What query_data.append does.
AppendInstance(data, i) == Append(data, instance_str(i))

\* What output_file.write(q + '\n') does to the file's text.
WriteLine(text, q) == text \o (q \o NEWLINE)

\* open(dataset_file, 'r') on a file that is not there raises.
OpenInputRaises ==
    /\ pc = "open_input"
    /\ input_file = "missing"
    /\ pc' = "raised"
    /\ UNCHANGED <<input_file, instances, query_data, out_file, out_opened,
                   out_old, written>>
    /\ UNCHANGED <<hvars, cvars, fvars, tvars>>

\* json.load on a file that holds no JSON raises.
LoadRaises ==
    /\ pc = "open_input"
    /\ input_file = "malformed"
    /\ pc' = "raised"
    /\ UNCHANGED <<input_file, instances, query_data, out_file, out_opened,
                   out_old, written>>
    /\ UNCHANGED <<hvars, cvars, fvars, tvars>>

\* Load with the output file opened before the loop.
Load_OpensOutput ==
    /\ pc = "open_input"
    /\ input_file = "ok"
    /\ pc' = "loop"
    /\ out_file' = [exists |-> TRUE, text |-> NoText]
    /\ out_opened' = TRUE
    /\ UNCHANGED <<input_file, instances, query_data, out_old, written>>
    /\ UNCHANGED <<hvars, cvars, fvars, tvars>>

\* open and json.load succeed: the loop starts.
Load ==
    /\ pc = "open_input"
    /\ input_file = "ok"
    /\ pc' = "loop"
    /\ UNCHANGED <<input_file, instances, query_data, out_file, out_opened,
                   out_old, written>>
    /\ UNCHANGED <<hvars, cvars, fvars, tvars>>

\* One iteration of the loop over instances.
ProcessInstance ==
    /\ pc = "loop"
    /\ Len(query_data) < Len(instances)
    /\ LET i == instances[Len(query_data) + 1] IN
        /\ ~instance_raises(i)
        /\ query_data' = AppendInstance(query_data, i)
    /\ UNCHANGED <<pc, input_file, instances, out_file, out_opened, out_old,
                   written>>
    /\ UNCHANGED <<hvars, cvars, fvars, tvars>>

\* An iteration whose body raises: the exception leaves analyse_dataset.
ProcessInstanceRaises ==
    /\ pc = "loop"
    /\ Len(query_data) < Len(instances)
    /\ instance_raises(instances[Len(query_data) + 1])
    /\ pc' = "raised"
    /\ UNCHANGED <<input_file, instances, query_data, out_file, out_opened,
                   out_old, written>>
    /\ UNCHANGED <<hvars, cvars, fvars, tvars>>

\* The loop is over: open(out_filename, 'w') creates or truncates the file.
OpenOutput ==
    /\ pc = "loop"
    /\ Len(query_data) = Len(instances)
    /\ out_file' = [exists |-> TRUE, text |-> NoText]
    /\ out_opened' = TRUE
    /\ pc' = "write"
    /\ UNCHANGED <<input_file, instances, query_data, out_old, written>>
    /\ UNCHANGED <<hvars, cvars, fvars, tvars>>

\* open(out_filename, 'w') raises (no statistics directory, no permission).
OpenOutputRaises ==
    /\ pc = "loop"
    /\ Len(query_data) = Len(instances)
    /\ pc' = "raised"
    /\ UNCHANGED <<input_file, instances, query_data, out_file, out_opened,
                   out_old, written>>
    /\ UNCHANGED <<hvars, cvars, fvars, tvars>>

\* One iteration of the loop over query_data.
WriteOutput ==
    /\ pc = "write"
    /\ written < Len(query_data)
    /\ out_file' = [out_file EXCEPT !.text = WriteLine(@, query_data[written + 1])]
    /\ written' = written + 1
    /\ UNCHANGED <<pc, input_file, instances, query_data, out_opened, out_old>>
    /\ UNCHANGED <<hvars, cvars, fvars, tvars>>

\* The file is closed and the two messages are printed.
Finish ==
    /\ pc = "write"
    /\ written = Len(query_data)
    /\ pc' = "done"
    /\ UNCHANGED <<input_file, instances, query_data, out_file, out_opened,
                   out_old, written>>
    /\ UNCHANGED <<hvars, cvars, fvars, tvars>>

----------------------------------------------------------------------------
(* format_predictions                                                      *)

\* The separator of p['prediction'].split('| ').
SEPARATOR == <<"|", " ">>

\* Python's s.find(sep), counted from 1: the first place where sep starts,
\* or 0 when s holds no sep.
find(s, sep) ==
    LET places == {k \in 1..(Len(s) - Len(sep) + 1) :
                       SubSeq(s, k, k + Len(sep) - 1) = sep}
    IN  IF places = {} THEN 0
        ELSE CHOOSE k \in places : \A m \in places : k <= m

RECURSIVE split(_, _)
\* Python's str.split(sep): the text before the first occurrence of sep,
\* then the split of the text after it.
split(s, sep) ==
    IF find(s, sep) = 0 THEN <<s>>
    ELSE <<SubSeq(s, 1, find(s, sep) - 1)>>
         \o split(SubSeq(s, find(s, sep) + Len(sep), Len(s)), sep)

\* segments[0] for segments[-1].
Last_First(segments) == segments[1]

\* segments[-1]
Last(segments) == segments[Len(segments)]

\* p['prediction'].split('| ')[-1]
predicted_query(p) == Last(split(p.prediction, SEPARATOR))

\* The generator of predicted_queries.extend(...), over all_predictions.
PredictedQueries(ps) == [k \in 1..Len(ps) |-> predicted_query(ps[k])]

\* The with block: the file is read and predicted_queries extended.
ReadPredictions ==
    /\ fpc = "read"
    /\ predicted_queries' = predicted_queries \o PredictedQueries(all_predictions)
    /\ fpc' = "open_output"
    /\ UNCHANGED <<all_predictions, sql_file, sql_written>>
    /\ UNCHANGED <<hvars, cvars, rvars, tvars>>

\* open(out_filename, 'w') creates or truncates predictions.sql.
OpenSqlFile ==
    /\ fpc = "open_output"
    /\ sql_file' = NoText
    /\ fpc' = "write"
    /\ UNCHANGED <<all_predictions, predicted_queries, sql_written>>
    /\ UNCHANGED <<hvars, cvars, rvars, tvars>>

\* One iteration of the loop over predicted_queries.
WriteQuery ==
    /\ fpc = "write"
    /\ sql_written < Len(predicted_queries)
    /\ sql_file' = WriteLine(sql_file, predicted_queries[sql_written + 1])
    /\ sql_written' = sql_written + 1
    /\ UNCHANGED <<fpc, all_predictions, predicted_queries>>
    /\ UNCHANGED <<hvars, cvars, rvars, tvars>>

FinishFormat ==
    /\ fpc = "write"
    /\ sql_written = Len(predicted_queries)
    /\ fpc' = "done"
    /\ UNCHANGED <<all_predictions, predicted_queries, sql_file, sql_written>>
    /\ UNCHANGED <<hvars, cvars, rvars, tvars>>

----------------------------------------------------------------------------
(* Seq2SeqTrainer.evaluate and Seq2SeqTrainer.predict                      *)
(* self_ holds what the constructor sets (eval_dataset, eval_examples);    *)
(* compute_metrics is self.compute_metrics; local holds the running call's *)
(* method, its dataset and examples arguments, its local compute_metrics   *)
(* and the number of batches evaluation_loop has done; results is how the  *)
(* calls made so far ended.                                                *)

NoCall ==
    [method |-> "none", dataset |-> "None", examples |-> "None",
     compute_metrics |-> "None", batches |-> 0]

\* evaluate is called: self.eval_dataset and self.eval_examples stand in for
\* a None argument.
CallEvaluate ==
    /\ tpc = "idle"
    /\ Len(results) < MaxCalls
    /\ \E eval_dataset \in {"None", "sized", "unsized"},
          eval_examples \in {"None", "given"} :
        local' = [method |-> "evaluate",
                  dataset |-> IF eval_dataset = "None" THEN self_.eval_dataset
                              ELSE eval_dataset,
                  examples |-> IF eval_examples = "None" THEN self_.eval_examples
                               ELSE eval_examples,
                  compute_metrics |-> "None", batches |-> 0]
    /\ tpc' = "entered"
    /\ UNCHANGED <<compute_metrics, self_, results>>
    /\ UNCHANGED <<hvars, cvars, rvars, fvars>>

\* predict is called.
CallPredict ==
    /\ tpc = "idle"
    /\ Len(results) < MaxCalls
    /\ \E test_dataset \in {"None", "sized", "unsized"},
          test_examples \in {"None", "given"} :
        local' = [method |-> "predict", dataset |-> test_dataset,
                  examples |-> test_examples,
                  compute_metrics |-> "None", batches |-> 0]
    /\ tpc' = "entered"
    /\ UNCHANGED <<compute_metrics, self_, results>>
    /\ UNCHANGED <<hvars, cvars, rvars, fvars>>

\* The call ends by raising before the try statement: the dataset has no
\* __len__ (ValueError), or the data loader cannot be built.
RaiseBeforeLoop ==
    /\ tpc = "entered"
    /\ local.dataset \in {"unsized", "None"}
    /\ tpc' = "idle"
    /\ local' = NoCall
    /\ results' = Append(results, "raised before the loop")
    /\ UNCHANGED <<compute_metrics, self_>>
    /\ UNCHANGED <<hvars, cvars, rvars, fvars>>

\* compute_metrics = self.compute_metrics; self.compute_metrics = None; and
\* evaluation_loop is entered. Whether the framework builds a data loader
\* for no dataset is its own matter: both outcomes are kept.
EnterLoop ==
    /\ tpc = "entered"
    /\ local.dataset \in {"sized", "None"}
    /\ local' = [local EXCEPT !.compute_metrics = compute_metrics]
    /\ compute_metrics' = "None"
    /\ tpc' = "loop"
    /\ UNCHANGED <<self_, results>>
    /\ UNCHANGED <<hvars, cvars, rvars, fvars>>

\* evaluation_loop does one batch; it reads self.compute_metrics only.
LoopBatch ==
    /\ tpc = "loop"
    /\ local.batches < MaxBatches
    /\ local' = [local EXCEPT !.batches = @ + 1]
    /\ UNCHANGED <<tpc, compute_metrics, self_, results>>
    /\ UNCHANGED <<hvars, cvars, rvars, fvars>>

\* evaluation_loop returns: the finally clause runs and the call goes on.
LoopReturns ==
    /\ tpc = "loop"
    /\ compute_metrics' = local.compute_metrics
    /\ tpc' = "after_loop"
    /\ UNCHANGED <<self_, local, results>>
    /\ UNCHANGED <<hvars, cvars, rvars, fvars>>

\* LoopRaises without the finally clause.
LoopRaises_NoFinally ==
    /\ tpc = "loop"
    /\ tpc' = "idle"
    /\ local' = NoCall
    /\ results' = Append(results, "raised in the loop")
    /\ UNCHANGED <<compute_metrics, self_>>
    /\ UNCHANGED <<hvars, cvars, rvars, fvars>>

\* evaluation_loop raises: the finally clause runs and the exception leaves
\* the call.
LoopRaises ==
    /\ tpc = "loop"
    /\ compute_metrics' = local.compute_metrics
    /\ tpc' = "idle"
    /\ local' = NoCall
    /\ results' = Append(results, "raised in the loop")
    /\ UNCHANGED self_
    /\ UNCHANGED <<hvars, cvars, rvars, fvars>>

\* Whether the call post-processes: evaluate needs examples, a dataset and
\* self.compute_metrics; predict needs self.compute_metrics.
PostProcesses ==
    IF local.method = "evaluate"
    THEN local.examples # "None" /\ local.dataset # "None" /\ compute_metrics # "None"
    ELSE compute_metrics # "None"

\* The rest of the call returns: the metrics are logged.
CallReturns ==
    /\ tpc = "after_loop"
    /\ local.dataset # "None"
    /\ tpc' = "idle"
    /\ local' = NoCall
    /\ results' = Append(results, "returned")
    /\ UNCHANGED <<compute_metrics, self_>>
    /\ UNCHANGED <<hvars, cvars, rvars, fvars>>

\* _post_process_function or self.compute_metrics raises.
PostProcessRaises ==
    /\ tpc = "after_loop"
    /\ PostProcesses
    /\ tpc' = "idle"
    /\ local' = NoCall
    /\ results' = Append(results, "raised after the loop")
    /\ UNCHANGED <<compute_metrics, self_>>
    /\ UNCHANGED <<hvars, cvars, rvars, fvars>>

\* len of the dataset, for the speed metrics, raises when there is none.
LenRaises ==
    /\ tpc = "after_loop"
    /\ local.dataset = "None"
    /\ tpc' = "idle"
    /\ local' = NoCall
    /\ results' = Append(results, "raised after the loop")
    /\ UNCHANGED <<compute_metrics, self_>>
    /\ UNCHANGED <<hvars, cvars, rvars, fvars>>

----------------------------------------------------------------------------
(* Inputs.                                                                 *)

PlainCond == Cond(0, <<>>, FALSE, FALSE)
SubqueryCond == Cond(0, <<>>, TRUE, FALSE)
BetweenSubqueryCond == Cond(0, <<>>, FALSE, TRUE)

SelectInputs ==
    {[distinct |-> d, units |-> u] : d \in BOOLEAN, u \in {<<0>>, <<3>>, <<0, 1>>}}

FromInputs ==
    {[table_units |-> [k \in 1..n |-> "table_unit"]] : n \in 1..MaxTables}

WhereInputs ==
    {<<>>,
     <<PlainCond>>,
     <<PlainCond, Conn("and"), SubqueryCond>>,
     <<BetweenSubqueryCond, Conn("or"), SubqueryCond>>}

GroupByInputs == {<<>>, <<"col_unit">>}

HavingInputs ==
    {<<>>,
     <<Cond(3, <<>>, FALSE, FALSE)>>,
     <<Cond(0, <<0>>, FALSE, FALSE), Conn("and"), Cond(1, <<4>>, TRUE, FALSE)>>}

OrderByInputs == {<<>>, <<<<"a", "s", "c">>>>, <<<<"d", "e", "s", "c">>>>}

LimitNone == [is_none |-> TRUE, value |-> 0]

LimitInputs == {LimitNone} \cup {[is_none |-> FALSE, value |-> v] : v \in 0..MaxLimit}

NestedInputs == {"None", "sql"}

\* The parsed queries form_clause_str is given: all hold select and from.
SqlInputs ==
    [keys : {{"select", "from"}},
     select : SelectInputs, from_ : FromInputs, where : WhereInputs,
     groupBy : GroupByInputs, having : HavingInputs, orderBy : OrderByInputs,
     limit : LimitInputs,
     union : NestedInputs, intersect : NestedInputs, except_ : NestedInputs]

\* SELECT a FROM t
SimpleSql ==
    [keys |-> {"select", "from"},
     select |-> [distinct |-> FALSE, units |-> <<0>>],
     from_ |-> [table_units |-> <<"table_unit">>],
     where |-> <<>>, groupBy |-> <<>>, having |-> <<>>, orderBy |-> <<>>,
     limit |-> LimitNone,
     union |-> "None", intersect |-> "None", except_ |-> "None"]

SimpleQuery ==
    <<"S", "E", "L", "E", "C", "T", " ", "a", " ", "F", "R", "O", "M", " ", "t">>

SimpleInstance ==
    [query |-> SimpleQuery, question |-> <<"q", "?">>, sql |-> SimpleSql,
     counts |-> <<0, 0, 0>>]

\* SELECT b FROM t WHERE a = 1 LIMIT 2
LimitInstance ==
    [query |-> <<"S", "E", "L", "E", "C", "T", " ", "b", " ", "F", "R", "O", "M",
                 " ", "t", " ", "W", "H", "E", "R", "E", " ", "a", " ", "=", " ",
                 "1", " ", "L", "I", "M", "I", "T", " ", "2">>,
     question |-> <<"t", "w", "o", " ", "b", "?">>,
     sql |-> [SimpleSql EXCEPT !.where = <<PlainCond>>,
                               !.limit = [is_none |-> FALSE, value |-> 2]],
     counts |-> <<2, 0, 0>>]

\* A record whose sql holds no select.
MalformedInstance ==
    [SimpleInstance EXCEPT !.sql = [SimpleSql EXCEPT !.keys = {"from"}]]

\* A record whose question holds a line break.
TwoLineInstance ==
    [SimpleInstance EXCEPT !.question = <<"q", "\n", "?">>]

InstanceInputs ==
    {SimpleInstance, LimitInstance, MalformedInstance, TwoLineInstance}

\* The sequences over S of length at most n.
SeqsUpTo(S, n) == UNION {[1..k -> S] : k \in 0..n}

OldText == <<"o", "l", "d", "\n">>

PredChars == {"a", "|", " ", "\n"}

\* explanation | SELECT x FROM y
SpecPrediction ==
    <<"e", "x", "p", "l", "a", "n", "a", "t", "i", "o", "n", " ", "|", " ",
      "S", "E", "L", "E", "C", "T", " ", "x", " ", "F", "R", "O", "M", " ", "y">>

LongPredictions ==
    {SpecPrediction,
     <<"a", "|", " ", "b", "|", " ", "c">>,
     <<"a", "|", "b", " ", "|">>,
     <<"x", "|", " ", "a", "\n", "b">>}

\* The lists of prediction records format_predictions is given: every one
\* record list over the short texts, and the lists over the long ones.
PredictionInputs ==
    {<<[prediction |-> t]>> : t \in SeqsUpTo(PredChars, MaxPredLen)}
    \cup SeqsUpTo({[prediction |-> t] : t \in LongPredictions}, MaxPreds)

----------------------------------------------------------------------------
(* Specifications.                                                         *)

HIdle ==
    /\ count_comp1_ = 0 /\ count_comp2_ = 0 /\ count_others_ = 0
    /\ hardness = NoText

CIdle == sql_dict = SimpleSql /\ clause_str = NoText

RIdle ==
    /\ pc = "idle" /\ input_file = "missing" /\ instances = <<>>
    /\ query_data = <<>> /\ out_file = [exists |-> FALSE, text |-> NoText]
    /\ out_opened = FALSE /\ out_old = out_file /\ written = 0

FIdle ==
    /\ fpc = "idle" /\ all_predictions = <<>> /\ predicted_queries = <<>>
    /\ sql_file = NoText /\ sql_written = 0

TIdle ==
    /\ tpc = "unused" /\ compute_metrics = "None"
    /\ self_ = [eval_dataset |-> "None", eval_examples |-> "None"]
    /\ local = NoCall /\ results = <<>>

\* eval_hardness on every triple of counters up to MaxCount.
HInit ==
    /\ count_comp1_ \in 0..MaxCount
    /\ count_comp2_ \in 0..MaxCount
    /\ count_others_ \in 0..MaxCount
    /\ hardness = NoText

Classify ==
    /\ hardness = NoText
    /\ hardness' = eval_hardness(count_comp1_, count_comp2_, count_others_)
    /\ UNCHANGED <<count_comp1_, count_comp2_, count_others_>>
    /\ UNCHANGED <<cvars, rvars, fvars, tvars>>

HNext == Classify

InitHardness == HInit /\ CIdle /\ RIdle /\ FIdle /\ TIdle

SpecHardness == InitHardness /\ [][HNext]_vars

\* form_clause_str on every parsed query of SqlInputs.
CInit == sql_dict \in SqlInputs /\ clause_str = NoText

Summarize ==
    /\ clause_str = NoText
    /\ ~form_clause_str_raises(sql_dict)
    /\ clause_str' = form_clause_str(sql_dict, delimiter)
    /\ UNCHANGED sql_dict
    /\ UNCHANGED <<hvars, rvars, fvars, tvars>>

CNext == Summarize

InitClause == HIdle /\ CInit /\ RIdle /\ FIdle /\ TIdle

SpecClause == InitClause /\ [][CNext]_vars

\* analyse_dataset on every input file and every list of instances.
RInit ==
    /\ pc = "open_input"
    /\ input_file \in {"missing", "malformed", "ok"}
    /\ instances \in SeqsUpTo(InstanceInputs, MaxRecords)
    /\ input_file # "ok" => instances = <<>>
    /\ query_data = <<>>
    /\ out_file \in {[exists |-> FALSE, text |-> NoText],
                     [exists |-> TRUE, text |-> OldText]}
    /\ out_opened = FALSE
    /\ out_old = out_file
    /\ written = 0

RNext ==
    \/ OpenInputRaises
    \/ LoadRaises
    \/ Load
    \/ ProcessInstance
    \/ ProcessInstanceRaises
    \/ OpenOutput
    \/ OpenOutputRaises
    \/ WriteOutput
    \/ Finish

InitReport == HIdle /\ CIdle /\ RInit /\ FIdle /\ TIdle

SpecReport == InitReport /\ [][RNext]_vars

\* format_predictions on every list of PredictionInputs.
FInit ==
    /\ fpc = "read"
    /\ all_predictions \in PredictionInputs
    /\ predicted_queries = <<>>
    /\ sql_file \in {NoText, OldText}
    /\ sql_written = 0

FNext ==
    \/ ReadPredictions
    \/ OpenSqlFile
    \/ WriteQuery
    \/ FinishFormat

InitFormat == HIdle /\ CIdle /\ RIdle /\ FInit /\ TIdle

SpecFormat == InitFormat /\ [][FNext]_vars

\* A constructed trainer: __init__ sets self.compute_metrics to
\* self._compute_metrics.
TInit ==
    /\ tpc = "idle"
    /\ compute_metrics = "_compute_metrics"
    /\ self_ \in [eval_dataset : {"None", "sized"}, eval_examples : {"None", "given"}]
    /\ local = NoCall
    /\ results = <<>>

TNext ==
    \/ CallEvaluate
    \/ CallPredict
    \/ RaiseBeforeLoop
    \/ EnterLoop
    \/ LoopBatch
    \/ LoopReturns
    \/ LoopRaises
    \/ CallReturns
    \/ PostProcessRaises
    \/ LenRaises

InitTrainer == HIdle /\ CIdle /\ RIdle /\ FIdle /\ TInit

SpecTrainer == InitTrainer /\ [][TNext]_vars

----------------------------------------------------------------------------
(* Properties of eval_hardness, under SpecHardness.                        *)

\* The order of the labels: easy < medium < hard < extra.
Rank(label) ==
    CASE label = EASY -> 0
      [] label = MEDIUM -> 1
      [] label = HARD -> 2
      [] label = EXTRA -> 3

Counters == <<count_comp1_, count_comp2_, count_others_>>

Classified == hardness # NoText

\* The decision list with the first elif tested before the if.
EvalOrder213(c1, c2, o) ==
    IF Rule2(c1, c2, o) THEN MEDIUM
    ELSE IF Rule1(c1, c2, o) THEN EASY
    ELSE IF Rule3(c1, c2, o) THEN HARD
    ELSE EXTRA

\* The decision list with the second elif tested before the if.
EvalOrder312(c1, c2, o) ==
    IF Rule3(c1, c2, o) THEN HARD
    ELSE IF Rule1(c1, c2, o) THEN EASY
    ELSE IF Rule2(c1, c2, o) THEN MEDIUM
    ELSE EXTRA

\* The decision list with the second elif tested before the first.
EvalOrder132(c1, c2, o) ==
    IF Rule1(c1, c2, o) THEN EASY
    ELSE IF Rule3(c1, c2, o) THEN HARD
    ELSE IF Rule2(c1, c2, o) THEN MEDIUM
    ELSE EXTRA

\* C1: the label eval_hardness returns is one of easy, medium, hard, extra,
\* and it is the label of the ordered decision list: easy when component1 <= 1,
\* others = 0 and component2 = 0; else medium when (others <= 2, component1 <= 1,
\* component2 = 0) or (component1 <= 2, others < 2, component2 = 0); else hard
\* when (others > 2, component1 <= 2, component2 = 0) or (2 < component1 <= 3,
\* others <= 2, component2 = 0) or (component1 <= 1, others = 0,
\* component2 <= 1); else extra. (1,0,0) is easy, (2,0,0) medium, (3,0,2) hard
\* and (4,1,3) extra, in the order (component1, component2, others).
C1_DecisionList ==
    Classified =>
        LET c1 == count_comp1_
            c2 == count_comp2_
            o == count_others_
        IN  /\ hardness \in {EASY, MEDIUM, HARD, EXTRA}
            /\ hardness =
                 (IF c1 <= 1 /\ o = 0 /\ c2 = 0 THEN EASY
                  ELSE IF (o <= 2 /\ c1 <= 1 /\ c2 = 0) \/ (c1 <= 2 /\ o < 2 /\ c2 = 0)
                       THEN MEDIUM
                  ELSE IF \/ (o > 2 /\ c1 <= 2 /\ c2 = 0)
                          \/ (2 < c1 /\ c1 <= 3 /\ o <= 2 /\ c2 = 0)
                          \/ (c1 <= 1 /\ o = 0 /\ c2 <= 1)
                       THEN HARD
                  ELSE EXTRA)
            /\ (Counters = <<1, 0, 0>> => hardness = EASY)
            /\ (Counters = <<2, 0, 0>> => hardness = MEDIUM)
            /\ (Counters = <<3, 0, 2>> => hardness = HARD)
            /\ (Counters = <<4, 1, 3>> => hardness = EXTRA)

C1_Witness == Classified /\ Counters = <<3, 0, 2>> /\ hardness = HARD

\* C7: every triple of counters that satisfies the condition of the if also
\* satisfies the conditions of both elifs; it is labelled easy, and testing
\* either elif before the if would label it medium or hard instead.
C7_Rule1InsideRule2AndRule3 ==
    LET c1 == count_comp1_
        c2 == count_comp2_
        o == count_others_
    IN  Rule1(c1, c2, o) =>
            /\ Rule2(c1, c2, o)
            /\ Rule3(c1, c2, o)
            /\ Classified =>
                /\ hardness = EASY
                /\ EvalOrder213(c1, c2, o) = MEDIUM
                /\ EvalOrder312(c1, c2, o) = HARD

C7_Witness ==
    /\ Classified
    /\ Counters = <<1, 0, 0>>
    /\ hardness = EASY
    /\ EvalOrder213(1, 0, 0) # hardness
    /\ EvalOrder312(1, 0, 0) # hardness

\* The number of the three conditions a triple satisfies.
RulesSatisfied(c1, c2, o) ==
    (IF Rule1(c1, c2, o) THEN 1 ELSE 0)
    + (IF Rule2(c1, c2, o) THEN 1 ELSE 0)
    + (IF Rule3(c1, c2, o) THEN 1 ELSE 0)

\* C8: outside the region of the if no triple of counters satisfies the
\* conditions of both elifs; the triples that satisfy more than one of the
\* three conditions are exactly those that satisfy the if's; and the label
\* returned is the one the list gives with the second elif tested before the
\* first.
C8_ElifsDisjointOutsideRule1 ==
    LET c1 == count_comp1_
        c2 == count_comp2_
        o == count_others_
    IN  /\ ~Rule1(c1, c2, o) => ~(Rule2(c1, c2, o) /\ Rule3(c1, c2, o))
        /\ RulesSatisfied(c1, c2, o) > 1 <=> Rule1(c1, c2, o)
        /\ Classified => hardness = EvalOrder132(c1, c2, o)

C8_Witness ==
    /\ Classified
    /\ Counters = <<1, 0, 2>>
    /\ ~Rule1(1, 0, 2) /\ Rule2(1, 0, 2) /\ ~Rule3(1, 0, 2)
    /\ hardness = MEDIUM

\* The triples of counters of the model.
Triples == (0..MaxCount) \X (0..MaxCount) \X (0..MaxCount)

\* a <= b in each counter.
Below(a, b) == a[1] <= b[1] /\ a[2] <= b[2] /\ a[3] <= b[3]

\* C9, as claimed: the label of a triple is not harder than the label of any
\* triple that is at least as large in each counter.
C9_Monotone ==
    Classified =>
        \A b \in Triples :
            Below(Counters, b) => Rank(hardness) <= Rank(eval_hardness(b[1], b[2], b[3]))

\* C9, amended: the same for every triple other than (component1 = 2,
\* component2 = 0, others = 2), which is labelled extra while larger triples
\* are labelled hard.
C9_MonotoneButOne ==
    Classified /\ Counters # <<2, 0, 2>> =>
        \A b \in Triples :
            Below(Counters, b) => Rank(hardness) <= Rank(eval_hardness(b[1], b[2], b[3]))

C9_Witness ==
    /\ Classified
    /\ Counters = <<2, 0, 1>>
    /\ hardness = MEDIUM
    /\ eval_hardness(2, 0, 2) = EXTRA
    /\ eval_hardness(2, 0, 3) = HARD

----------------------------------------------------------------------------
(* Properties of form_clause_str, under SpecClause.                        *)

StartsWith(text, prefix) ==
    Len(text) >= Len(prefix) /\ SubSeq(text, 1, Len(prefix)) = prefix

EndsWith(text, suffix) ==
    /\ Len(text) >= Len(suffix)
    /\ SubSeq(text, Len(text) - Len(suffix) + 1, Len(text)) = suffix

Contains(text, part) ==
    \E k \in 1..(Len(text) - Len(part) + 1) :
        SubSeq(text, k, k + Len(part) - 1) = part

Summarized == clause_str # NoText

\* The fields of clause_str: the texts between its delimiters.
ClauseFields == split(clause_str, delimiter)

\* A clause's field: it starts with the keyword when the clause is used, and
\* is empty when the clause is absent.
ClauseField(field, used, keyword) ==
    IF used THEN StartsWith(field, keyword) ELSE field = NoText

\* C2, as claimed: the output holds ten fields, one per clause category,
\* followed by the count.
C2_TenFields == Summarized => Len(ClauseFields) = 10 + 1

\* C2, amended: the output always holds twelve fields, at the same positions
\* whichever clauses are present: select, the literal FROM, the number of
\* tables, where, groupBy, having, orderBy, limit, union, intersect, except
\* and the count; from takes two fields, and an absent clause yields an empty
\* field.
C2_TwelveFields ==
    Summarized =>
        LET f == ClauseFields IN
        /\ Len(f) = 12
        /\ StartsWith(f[1], SELECT_)
        /\ f[2] = FROM_
        /\ f[3] = str(Len(sql_dict.from_.table_units))
        /\ ClauseField(f[4], sql_dict.where # <<>>, WHERE_)
        /\ ClauseField(f[5], sql_dict.groupBy # <<>>, GROUP_BY_)
        /\ ClauseField(f[6], sql_dict.having # <<>>, HAVING_)
        /\ ClauseField(f[7], sql_dict.orderBy # <<>>, ORDER_BY_)
        /\ (sql_dict.limit.is_none => f[8] = NoText)
        /\ (~sql_dict.limit.is_none /\ sql_dict.limit.value > 0
                => StartsWith(f[8], LIMIT_))
        /\ ClauseField(f[9], sql_dict.union # "None", UNION_)
        /\ ClauseField(f[10], sql_dict.intersect # "None", INTERSECT_)
        /\ ClauseField(f[11], sql_dict.except_ # "None", EXCEPT_)
        /\ f[12] # NoText

C2_Witness ==
    /\ Summarized
    /\ sql_dict.where = <<>>
    /\ sql_dict.orderBy # <<>>
    /\ sql_dict.limit.is_none
    /\ sql_dict.except_ # "None"
    /\ ClauseFields[4] = NoText
    /\ ClauseFields[7] # NoText
    /\ ClauseFields[11] = EXCEPT_

\* The number of clause categories the query has.
ClausesPresent(sql) ==
    2
    + (IF sql.where # <<>> THEN 1 ELSE 0)
    + (IF sql.groupBy # <<>> THEN 1 ELSE 0)
    + (IF sql.having # <<>> THEN 1 ELSE 0)
    + (IF sql.orderBy # <<>> THEN 1 ELSE 0)
    + (IF ~sql.limit.is_none THEN 1 ELSE 0)
    + (IF sql.union # "None" THEN 1 ELSE 0)
    + (IF sql.intersect # "None" THEN 1 ELSE 0)
    + (IF sql.except_ # "None" THEN 1 ELSE 0)

\* C3: the last field of the output is the decimal count of the clause
\* categories the query has: 2 for select and from, and 1 more for each of
\* where, groupBy, having, orderBy, limit, union, intersect, except the query
\* has; it is between 2 and 10, and 2 for a query with only select and from.
C3_CountOfClausesPresent ==
    Summarized =>
        /\ ClauseFields[Len(ClauseFields)] = str(ClausesPresent(sql_dict))
        /\ ClausesPresent(sql_dict) \in 2..10
        /\ (sql_dict.where = <<>> /\ sql_dict.groupBy = <<>> /\ sql_dict.having = <<>>
            /\ sql_dict.orderBy = <<>> /\ sql_dict.limit.is_none
            /\ sql_dict.union = "None" /\ sql_dict.intersect = "None"
            /\ sql_dict.except_ = "None"
                => ClauseFields[Len(ClauseFields)] = <<"2">>)

----------------------------------------------------------------------------
(* Properties of analyse_dataset, under SpecReport.                        *)

\* The lines of a text: the texts its line breaks end.
Lines(text) ==
    LET parts == split(text, NEWLINE) IN SubSeq(parts, 1, Len(parts) - 1)

\* No text after the last line break.
EndsAtLineBreak(text) == Last(split(text, NEWLINE)) = NoText

NoLineBreak(text) == ~Contains(text, NEWLINE)

\* C4: a run that ends by an exception has not opened, created, truncated or
\* written the output file, and the output file is opened or changed only
\* when the input was read and every instance has been turned into a line:
\* no output holds the lines of only a prefix of the instances because an
\* instance failed.
C4_NoOutputOnError ==
    /\ pc = "raised" => ~out_opened /\ out_file = out_old
    /\ out_opened \/ out_file # out_old =>
        /\ input_file = "ok"
        /\ Len(query_data) = Len(instances)
        /\ \A k \in 1..Len(instances) : ~instance_raises(instances[k])

C4_Witness ==
    /\ pc = "raised"
    /\ instances = <<SimpleInstance, MalformedInstance>>
    /\ Len(query_data) = 1
    /\ out_old = [exists |-> TRUE, text |-> OldText]
    /\ out_file = out_old

\* The line of an instance: query, question, hardness label, clause summary,
\* length of the query, length of the question.
ReportLine(i) ==
    Concat(<<i.query, <<" ", "|", " ">>,
             i.question, <<" ", "|", " ">>,
             eval_hardness(i.counts[1], i.counts[2], i.counts[3]), <<" ", "|", " ">>,
             form_clause_str(i.sql, <<"|">>), <<" ", "|">>,
             str(Len(i.query)), <<" ", "|">>,
             str(Len(i.question))>>)

\* C5: when no query or question holds a line break, a run that ends well
\* has written as many lines as there are instances, the k-th line being the
\* line of the k-th instance; the one instance (SELECT a FROM t, q?) gives
\* one line whose fields start with the query, the question and easy, and
\* end with 15 and 2.
C5_OneLinePerInstanceInOrder ==
    pc = "done"
    /\ (\A k \in 1..Len(instances) :
            NoLineBreak(instances[k].query) /\ NoLineBreak(instances[k].question))
    =>  LET lines == Lines(out_file.text) IN
        /\ EndsAtLineBreak(out_file.text)
        /\ Len(lines) = Len(instances)
        /\ \A k \in 1..Len(instances) : lines[k] = ReportLine(instances[k])
        /\ instances = <<SimpleInstance>> =>
            LET f == split(lines[1], <<"|">>) IN
            /\ f[1] = SimpleQuery \o <<" ">>
            /\ f[2] = <<" ", "q", "?", " ">>
            /\ f[3] = <<" ">> \o EASY \o <<" ">>
            /\ f[Len(f) - 1] = <<"1", "5", " ">>
            /\ f[Len(f)] = <<"2">>
            /\ Contains(lines[1], EASY)
            /\ EndsWith(lines[1], <<"1", "5", " ", "|", "2">>)

C5_Witness ==
    /\ pc = "done"
    /\ instances = <<LimitInstance, SimpleInstance>>
    /\ Len(Lines(out_file.text)) = 2
    /\ Lines(out_file.text)[1] # Lines(out_file.text)[2]
    /\ StartsWith(Lines(out_file.text)[2], SimpleQuery)

----------------------------------------------------------------------------
(* Properties of format_predictions, under SpecFormat.                     *)

\* The places of text where the separator starts.
SeparatorPlaces(text) ==
    {k \in 1..(Len(text) - 1) : SubSeq(text, k, k + 1) = SEPARATOR}

\* The part of text after the last occurrence of the separator, or all of
\* text when it holds none.
AfterLastSeparator(text) ==
    IF SeparatorPlaces(text) = {} THEN text
    ELSE LET k == CHOOSE m \in SeparatorPlaces(text) :
                      \A n \in SeparatorPlaces(text) : n <= m
         IN  SubSeq(text, k + 2, Len(text))

\* The final segments of the predictions given, in their order.
FinalSegments ==
    [k \in 1..Len(all_predictions) |-> AfterLastSeparator(all_predictions[k].prediction)]

\* The segments kept are the final segments, in input order; none holds the
\* separator and formatting one again returns it unchanged; the file holds
\* each of them followed by a line break.
SegmentsWritten ==
    /\ predicted_queries = FinalSegments
    /\ \A k \in 1..Len(predicted_queries) :
        /\ ~Contains(predicted_queries[k], SEPARATOR)
        /\ predicted_query([prediction |-> predicted_queries[k]]) = predicted_queries[k]
    /\ sql_file = Concat([k \in 1..Len(FinalSegments) |-> FinalSegments[k] \o NEWLINE])

\* C6, as claimed: for every list of predictions the file holds one line per
\* record, in input order, the line of a prediction being its final segment.
C6_OneLinePerPrediction ==
    fpc = "done" => SegmentsWritten /\ Lines(sql_file) = FinalSegments

\* C6, amended: the same, the file holding one line per record when no final
\* segment holds a line break.
C6_OneLinePerPredictionWithoutLineBreak ==
    fpc = "done" =>
        /\ SegmentsWritten
        /\ (\A k \in 1..Len(FinalSegments) : NoLineBreak(FinalSegments[k]))
                => Lines(sql_file) = FinalSegments

C6_Witness ==
    /\ fpc = "done"
    /\ Len(all_predictions) = 2
    /\ all_predictions[1].prediction = SpecPrediction
    /\ all_predictions[2].prediction = <<"a", "|", " ", "b", "|", " ", "c">>
    /\ Lines(sql_file) =
        << <<"S", "E", "L", "E", "C", "T", " ", "x", " ", "F", "R", "O", "M", " ", "y">>,
           <<"c">> >>

----------------------------------------------------------------------------
(* Properties of Seq2SeqTrainer, under SpecTrainer.                        *)

\* C10: self.compute_metrics is None all the time evaluation_loop runs, and
\* at every other time, so after every way out of evaluation_loop and after
\* every sequence of evaluate and predict calls however they ended, it is the
\* value it had before: the one the constructor set.
C10_ComputeMetricsRestored ==
    /\ tpc = "loop" => compute_metrics = "None"
    /\ tpc # "loop" => compute_metrics = "_compute_metrics"

C10_Witness ==
    /\ tpc = "idle"
    /\ results = <<"raised in the loop", "returned">>
    /\ compute_metrics = "_compute_metrics"

====
